---- MODULE Spec2Model ----
(***************************************************************************)
(* Model of the Razorpay payment API (app/routes/payments.py and           *)
(* app/services/razorpay_service.py).                                      *)
(*                                                                         *)
(* The ledger is the module-level dict payments_db.  The HTTP handlers     *)
(* create_order, verify_payment, razorpay_webhook and create_refund are    *)
(* `async def` coroutines that touch the ledger without awaiting, so each  *)
(* one is a single step of the event-loop thread.  process_webhook_event   *)
(* is a plain `def` handed to BackgroundTasks: it runs on a worker thread  *)
(* after the response is sent, so its scan of payments_db proceeds one     *)
(* loop iteration at a time and interleaves with the handlers.             *)
(*                                                                         *)
(* The payment processor (the razorpay SDK client) is the environment: a   *)
(* call to it either raises or returns a reply drawn from a small set.     *)
(*                                                                         *)
(* Money: a major-unit amount with two decimals is the double nearest to   *)
(* c/100 and is represented by the integer c.                              *)
(***************************************************************************)
EXTENDS Integers, Sequences, FiniteSets, TLC

(* ------------------------------ bounds -------------------------------- *)

\* Orders the processor issues in one run.
MaxOrders == 2
\* Webhook background tasks that may be pending at once.
MaxTasks == 1

(* ------------------------------ values -------------------------------- *)

\* Python's None for string-valued fields.
None == "None"
\* Python's None for number-valued fields (RefundCreate.amount, refund_amount).
NoAmount == -1
\* A payload without an order identifier.
NoOrder == 0

razorpay_key_secret == "key_secret"
webhook_secret == "webhook_secret"
\* A secret that is not the configured one (a sender who does not hold it).
OtherSecret == "other_secret"

\* The order the processor's payments and events are about: the first one issued.
EventOrder == 1
\* An order of the same merchant account that was not created through this API.
ForeignOrder == MaxOrders + 1
\* Order identifiers that requests and events name.
OrderIds == {EventOrder, ForeignOrder}
PaymentIds == {"pay_A", "pay_B"}
RefundIds == {"rfnd_1"}
Methods == {"card"}
\* Customer names a client gives with an order (the other metadata is omitted).
CustomerNames == {"Test User"}
\* Order amounts a client asks for, in hundredths of a major unit.
OrderAmounts == {100}
\* Refund amounts a client asks for: none given, or hundredths of a major unit
\* (RefundCreate.amount has no lower bound, so 0 is accepted).
RefundAmounts == {NoAmount, 0, 57}
\* Amounts (minor units) the processor reports for a refund.
GatewayRefundAmounts == {100}
\* Statuses the processor reports for a refund (Refund entity).
GatewayRefundStatuses == {"processed"}
\* Statuses the processor reports when a payment is fetched.
FetchStatuses == {"paid", "failed"}

(* --------------------------- float arithmetic ------------------------- *)

RECURSIVE Pow2(_)
Pow2(k) == IF k = 0 THEN 1 ELSE 2 * Pow2(k - 1)

RECURSIVE Pow2Mod(_, _)
\* 2^k mod m, without leaving small integers.
Pow2Mod(k, m) == IF k = 0 THEN 1 % m ELSE (2 * Pow2Mod(k - 1, m)) % m

RECURSIVE FloorLog2Up(_, _, _)
\* For n >= d: the j >= 0 with d*2^j <= n < d*2^(j+1).
FloorLog2Up(n, d, j) == IF n < 2 * d THEN j ELSE FloorLog2Up(n, 2 * d, j + 1)

RECURSIVE FloorLog2Down(_, _, _)
\* For n < d: the j < 0 with d*2^j <= n < d*2^(j+1).
FloorLog2Down(n, d, j) == IF n >= d THEN j ELSE FloorLog2Down(2 * n, d, j - 1)

\* floor(log2(n/d)) for n, d >= 1.
FloorLog2(n, d) == IF n >= d THEN FloorLog2Up(n, d, 0) ELSE FloorLog2Down(n, d, 0)

\* A mutant of AmountToMinor: round to nearest instead of truncating.
AmountToMinorRounded(c) == c

(* int(amount * 100) for amount = the IEEE-754 double nearest to c/100.     *)
(* With jq = floor(log2(c/100)) the double is m * 2^(jq-52), m the 53-bit  *)
(* mantissa rounded to nearest; r is the remainder the rounding drops, so  *)
(* amount * 100 = c + E * 2^(jq-52) exactly, E = -r (rounded down) or      *)
(* 100 - r (rounded up).  The product is rounded to a double again: it     *)
(* falls below c, and int() truncates it to c - 1, exactly when E < 0 and  *)
(* |E| * 2^(jq-52) exceeds half the spacing of doubles just below c.       *)
AmountToMinor(c) ==
    IF c = 0 THEN 0
    ELSE LET jq == FloorLog2(c, 100)
             j  == FloorLog2(c, 1)
             r  == ((c % 100) * Pow2Mod(52 - jq, 100)) % 100
             E  == IF r < 50 THEN 0 - r ELSE 100 - r
             w  == IF c = Pow2(j) THEN 2 ELSE 1
         IN  IF E < 0 /\ 2 * (0 - E) * w > Pow2(j - jq) THEN c - 1 ELSE c

(* ----------------------------- signatures ----------------------------- *)

\* HMAC-SHA256 as a perfect keyed hash: equal digests iff equal key and message.
hmac_sha256(secret, message) == <<secret, message>>

\* The message the processor signs for a client-side confirmation.
PaymentMessage(order_id, payment_id) == <<order_id, payment_id>>

\* A stored signature field holding None.
NoSignature == hmac_sha256(None, PaymentMessage(NoOrder, None))

\* Signatures a client may present with (order_id, payment_id): the processor's,
\* one made with another secret, and the processor's for another payment.
PaymentSignatures(order_id, payment_id) ==
    { hmac_sha256(razorpay_key_secret, PaymentMessage(order_id, payment_id)),
      hmac_sha256(OtherSecret, PaymentMessage(order_id, payment_id)) }
    \cup { hmac_sha256(razorpay_key_secret, PaymentMessage(order_id, p)) :
               p \in PaymentIds \ {payment_id} }

\* A mutant of verify_payment_signature: every signature passes.
verify_payment_signature_accepts_all(order_id, payment_id, signature) == TRUE

verify_payment_signature(order_id, payment_id, signature) ==
    signature = hmac_sha256(razorpay_key_secret, PaymentMessage(order_id, payment_id))

\* A mutant of verify_webhook_signature: the digest's key is not compared.
verify_webhook_signature_any_key(body, signature) == signature[2] = body

verify_webhook_signature(body, signature) ==
    signature = hmac_sha256(webhook_secret, body)

(* ------------------------------- state -------------------------------- *)

VARIABLES
    payments_db,   \* the ledger: the dict's records in insertion order; key = index = order id
    tasks,         \* webhook events handed to BackgroundTasks and not finished yet
    response,      \* the last HTTP response sent, with what its handler did on the way
    refunded       \* per ledger record, the sum of the refund amounts applied to it so far

vars == <<payments_db, tasks, response, refunded>>

\* The record create_order stores for a new order.
payment_record(order_id, amount, customer_name) ==
    [ order_id            |-> order_id,
      amount              |-> amount,
      currency            |-> "INR",
      status              |-> "created",
      customer_name       |-> customer_name,
      customer_email      |-> None,
      customer_phone      |-> None,
      description         |-> None,
      razorpay_payment_id |-> None,
      razorpay_order_id   |-> NoOrder,
      razorpay_signature  |-> NoSignature,
      method              |-> None,
      refund_id           |-> None,
      refund_amount       |-> NoAmount,
      refund_status       |-> None ]

\* A webhook request body: well-formed JSON with an event and its entity, or not JSON at all.
WebhookBody(wellformed, event, order_id, payment_id, method, refund_id, amount) ==
    [ wellformed |-> wellformed, event |-> event, order_id |-> order_id,
      payment_id |-> payment_id, method |-> method, refund_id |-> refund_id,
      amount |-> amount ]

CapturedBodies ==
    { WebhookBody(TRUE, "payment.captured", EventOrder, p, m, None, NoAmount) :
        p \in PaymentIds, m \in Methods }
    \cup { WebhookBody(TRUE, "payment.captured", ForeignOrder, "pay_A", m, None, NoAmount) :
        m \in Methods }
FailedBodies ==
    { WebhookBody(TRUE, "payment.failed", o, p, None, None, NoAmount) :
        o \in OrderIds, p \in {"pay_A"} }
\* A refund entity names its payment, or carries no payment_id at all.
RefundCreatedBodies ==
    { WebhookBody(TRUE, "refund.created", NoOrder, p, None, r, a) :
        p \in {"pay_A", None}, r \in RefundIds, a \in GatewayRefundAmounts }
OtherEventBody == WebhookBody(TRUE, "order.paid", EventOrder, None, None, None, NoAmount)
MalformedBody == WebhookBody(FALSE, None, NoOrder, None, None, None, NoAmount)

\* The bodies a sender without the webhook secret submits: a capture of the
\* order's payment, and a body that is not JSON.
ForgedBodies ==
    { WebhookBody(TRUE, "payment.captured", EventOrder, "pay_A", m, None, NoAmount) :
        m \in Methods } \cup {MalformedBody}

Bodies == CapturedBodies \cup FailedBodies \cup RefundCreatedBodies
              \cup {OtherEventBody, MalformedBody}

\* The X-Razorpay-Signature header of a request for `body`: absent, or a digest.
\* The unsigned and forged requests are drawn for the bodies of ForgedBodies.
SignatureHeaders(body) ==
    { <<hmac_sha256(webhook_secret, body)>> }
      \cup IF body \in ForgedBodies
            THEN { <<>>,
                   <<hmac_sha256(OtherSecret, body)>>,
                   <<hmac_sha256(webhook_secret, OtherEventBody)>> }
            ELSE {}

\* An HTTP response and the trace of its handler: whether the body was parsed,
\* whether a background task was scheduled, which processor call was made,
\* the minor-unit amount sent with it and the status a payment fetch returned.
Response(op, code) ==
    [ op |-> op, code |-> code, parsed |-> FALSE, scheduled |-> FALSE,
      gateway |-> None, sent |-> NoAmount, fetched |-> None ]

HTTP_200_OK == 200
HTTP_400_BAD_REQUEST == 400

Init ==
    /\ payments_db = <<>>
    /\ tasks = <<>>
    /\ response = Response(None, HTTP_200_OK)
    /\ refunded = <<>>

\* Ceiling of the applied-refund sums: above every order amount, so that
\* "sum <= amount" is decided the same way with or without it.
RefundSumCap == (CHOOSE m \in OrderAmounts : \A a \in OrderAmounts : a <= m) + 1

AddRefund(sum, amount) ==
    IF sum + amount > RefundSumCap THEN RefundSumCap ELSE sum + amount

(* ---------------------------- create_order ---------------------------- *)

\* The processor either raises (the handler answers 400 and stores nothing) or
\* issues the next order identifier, never one it issued before; the record
\* is stored under it.
create_order(amount, customer_name) ==
    \E raised \in BOOLEAN :
        IF raised
        THEN /\ response' = [Response("create_order", HTTP_400_BAD_REQUEST) EXCEPT
                                !.gateway = "order.create", !.sent = AmountToMinor(amount)]
             /\ UNCHANGED <<payments_db, tasks, refunded>>
        ELSE /\ Len(payments_db) < MaxOrders
             /\ payments_db' = Append(payments_db,
                                      payment_record(Len(payments_db) + 1, amount,
                                                     customer_name))
             /\ refunded' = Append(refunded, 0)
             /\ response' = [Response("create_order", HTTP_200_OK) EXCEPT
                                !.gateway = "order.create", !.sent = AmountToMinor(amount)]
             /\ UNCHANGED tasks

(* --------------------------- verify_payment --------------------------- *)

verify_update(rec, order_id, payment_id, signature) ==
    [rec EXCEPT !.status = "paid",
                !.razorpay_payment_id = payment_id,
                !.razorpay_order_id = order_id,
                !.razorpay_signature = signature]

\* A mutant of verified_ledger: a payment for an order the ledger does not
\* hold is recorded on the first record.
verified_ledger_falls_back(db, order_id, payment_id, signature) ==
    IF order_id \in DOMAIN db
    THEN [db EXCEPT ![order_id] = verify_update(@, order_id, payment_id, signature)]
    ELSE IF db # <<>>
    THEN [db EXCEPT ![1] = verify_update(@, order_id, payment_id, signature)]
    ELSE db

\* The ledger after the `if order_id in payments_db` block of verify_payment.
verified_ledger(db, order_id, payment_id, signature) ==
    IF order_id \in DOMAIN db
    THEN [db EXCEPT ![order_id] = verify_update(@, order_id, payment_id, signature)]
    ELSE db

\* The ledger is updated before the payment is fetched; a fetch that raises
\* (fetched = None) turns into a 400 with the update already made.
verify_payment(order_id, payment_id, signature) ==
    IF ~verify_payment_signature(order_id, payment_id, signature)
    THEN /\ response' = Response("verify_payment", HTTP_400_BAD_REQUEST)
         /\ UNCHANGED <<payments_db, tasks, refunded>>
    ELSE /\ payments_db' = verified_ledger(payments_db, order_id, payment_id, signature)
         /\ \E fetched \in FetchStatuses \cup {None} :
                response' =
                    IF fetched = None
                    THEN [Response("verify_payment", HTTP_400_BAD_REQUEST) EXCEPT
                              !.gateway = "payment.fetch"]
                    ELSE [Response("verify_payment", HTTP_200_OK) EXCEPT
                              !.gateway = "payment.fetch", !.fetched = fetched]
         /\ UNCHANGED <<tasks, refunded>>

(* -------------------------- razorpay_webhook -------------------------- *)

\* A background task: the event and payload given to process_webhook_event,
\* where it stands (pc), the position i of its scan and the size n the dict
\* had when the scan's iterator was made.
Task(event, payload) ==
    [ event |-> event, payload |-> payload, pc |-> "start", i |-> 0, n |-> 0 ]

\* A mutant of razorpay_webhook: the acknowledgment waits for the look-up of
\* the event's record and is an error when no record matches.
razorpay_webhook_checks_record(headers, body) ==
    IF headers = <<>>
    THEN /\ response' = Response("webhook", HTTP_400_BAD_REQUEST)
         /\ UNCHANGED <<payments_db, tasks, refunded>>
    ELSE IF ~(headers[1] = hmac_sha256(webhook_secret, body))
    THEN /\ response' = Response("webhook", HTTP_400_BAD_REQUEST)
         /\ UNCHANGED <<payments_db, tasks, refunded>>
    ELSE IF ~body.wellformed
    THEN /\ response' = [Response("webhook", HTTP_400_BAD_REQUEST) EXCEPT !.parsed = TRUE]
         /\ UNCHANGED <<payments_db, tasks, refunded>>
    ELSE /\ Len(tasks) < MaxTasks
         /\ tasks' = Append(tasks, Task(body.event, body))
         /\ response' = [Response("webhook",
                                  IF \E k \in DOMAIN payments_db :
                                         payments_db[k].order_id = body.order_id
                                  THEN HTTP_200_OK ELSE HTTP_400_BAD_REQUEST)
                             EXCEPT !.parsed = TRUE, !.scheduled = TRUE]
         /\ UNCHANGED <<payments_db, refunded>>

razorpay_webhook(headers, body) ==
    IF headers = <<>>
    THEN /\ response' = Response("webhook", HTTP_400_BAD_REQUEST)
         /\ UNCHANGED <<payments_db, tasks, refunded>>
    ELSE IF ~verify_webhook_signature(body, headers[1])
    THEN /\ response' = Response("webhook", HTTP_400_BAD_REQUEST)
         /\ UNCHANGED <<payments_db, tasks, refunded>>
    ELSE IF ~body.wellformed
    THEN /\ response' = [Response("webhook", HTTP_400_BAD_REQUEST) EXCEPT !.parsed = TRUE]
         /\ UNCHANGED <<payments_db, tasks, refunded>>
    ELSE /\ Len(tasks) < MaxTasks
         /\ tasks' = Append(tasks, Task(body.event, body))
         /\ response' = [Response("webhook", HTTP_200_OK) EXCEPT
                             !.parsed = TRUE, !.scheduled = TRUE]
         /\ UNCHANGED <<payments_db, refunded>>

(* ------------------------ process_webhook_event ----------------------- *)

\* A mutant of ScannedEvents: every event with an order id is scanned for.
ScannedEventsAndOthers ==
    {"payment.captured", "payment.failed", "refund.created", "order.paid"}

ScannedEvents == {"payment.captured", "payment.failed", "refund.created"}

\* A mutant of event_matches: a payment event matches whatever record the scan
\* reaches first.
event_matches_first_record(event, payload, rec) ==
    IF event = "refund.created"
    THEN rec.razorpay_payment_id = payload.payment_id
    ELSE TRUE

\* The test of the scan's `if` for one record.
event_matches(event, payload, rec) ==
    IF event = "refund.created"
    THEN rec.razorpay_payment_id = payload.payment_id
    ELSE rec.order_id = payload.order_id

\* A mutant of event_update: refund.created adds to the recorded refund amount.
event_update_accumulates(event, payload, rec) ==
    IF event = "payment.captured"
    THEN [rec EXCEPT !.status = "paid",
                     !.razorpay_payment_id = payload.payment_id,
                     !.method = payload.method]
    ELSE IF event = "payment.failed"
    THEN [rec EXCEPT !.status = "failed"]
    ELSE [rec EXCEPT !.refund_id = payload.refund_id,
                     !.refund_amount = IF @ = NoAmount THEN payload.amount
                                       ELSE @ + payload.amount,
                     !.refund_status = "created"]

\* The write an event makes to the record its scan matched.
event_update(event, payload, rec) ==
    IF event = "payment.captured"
    THEN [rec EXCEPT !.status = "paid",
                     !.razorpay_payment_id = payload.payment_id,
                     !.method = payload.method]
    ELSE IF event = "payment.failed"
    THEN [rec EXCEPT !.status = "failed"]
    ELSE [rec EXCEPT !.refund_id = payload.refund_id,
                     !.refund_amount = payload.amount,
                     !.refund_status = "created"]

RemoveAt(seq, t) == [k \in 1..(Len(seq) - 1) |-> IF k < t THEN seq[k] ELSE seq[k + 1]]

\* The task enters the function: it dispatches on the event and, for an event
\* it knows, makes the iterator of its for loop.
TaskStart(t) ==
    /\ t \in DOMAIN tasks
    /\ tasks[t].pc = "start"
    /\ tasks' = IF tasks[t].event \in ScannedEvents
                THEN [tasks EXCEPT ![t].pc = "scan", ![t].i = 1,
                                   ![t].n = Len(payments_db)]
                ELSE RemoveAt(tasks, t)
    /\ UNCHANGED <<payments_db, response, refunded>>

\* One turn of the for loop: the iterator's next() raises RuntimeError when
\* the dict changed size since the iterator was made (caught by the except at
\* the end of the function), ends the loop when it is exhausted, and else
\* yields a record, which the `if` tests.
TaskScan(t) ==
    /\ t \in DOMAIN tasks
    /\ tasks[t].pc = "scan"
    /\ tasks' = IF Len(payments_db) # tasks[t].n THEN RemoveAt(tasks, t)
                ELSE IF tasks[t].i > tasks[t].n THEN RemoveAt(tasks, t)
                ELSE IF event_matches(tasks[t].event, tasks[t].payload,
                                      payments_db[tasks[t].i])
                THEN [tasks EXCEPT ![t].pc = "write"]
                ELSE [tasks EXCEPT ![t].i = @ + 1]
    /\ UNCHANGED <<payments_db, response, refunded>>

\* The body of the `if`: the update of the matched record, then break.
TaskWrite(t) ==
    /\ t \in DOMAIN tasks
    /\ tasks[t].pc = "write"
    /\ payments_db' = [payments_db EXCEPT ![tasks[t].i] =
                           event_update(tasks[t].event, tasks[t].payload, @)]
    /\ refunded' = IF tasks[t].event = "refund.created"
                   THEN [refunded EXCEPT ![tasks[t].i] =
                             AddRefund(@, tasks[t].payload.amount)]
                   ELSE refunded
    /\ tasks' = RemoveAt(tasks, t)
    /\ UNCHANGED response

RECURSIVE FirstMatch(_, _, _, _)
\* The index of the first record from i on that the scan matches, 0 if none.
FirstMatch(db, event, payload, i) ==
    IF i > Len(db) THEN 0
    ELSE IF event_matches(event, payload, db[i]) THEN i
    ELSE FirstMatch(db, event, payload, i + 1)

\* process_webhook_event run from start to end on ledger db with no other
\* thread running in between.
process_webhook_event(db, event, payload) ==
    IF event \notin ScannedEvents THEN db
    ELSE LET k == FirstMatch(db, event, payload, 1)
         IN  IF k = 0 THEN db
             ELSE [db EXCEPT ![k] = event_update(event, payload, @)]

(* ---------------------------- create_refund --------------------------- *)

\* RazorpayService.create_refund: the amount put in the request data, none
\* when `if amount:` is false.
refund_request_amount(amount) ==
    IF amount # NoAmount /\ amount # 0 THEN AmountToMinor(amount) ELSE NoAmount

\* The refunds the processor may reply with to a request carrying `sent`.
GatewayRefunds(sent) ==
    [ id : RefundIds,
      amount : IF sent = NoAmount THEN GatewayRefundAmounts ELSE {sent},
      status : GatewayRefundStatuses ]

\* A mutant of refund_update: the refunded amount is written over the order's
\* amount as well.
refund_update_sets_amount(rec, refund) ==
    [rec EXCEPT !.status = "refunded",
                !.amount = refund.amount,
                !.refund_id = refund.id,
                !.refund_amount = refund.amount,
                !.refund_status = refund.status]

refund_update(rec, refund) ==
    [rec EXCEPT !.refund_id = refund.id,
                !.refund_amount = refund.amount,
                !.refund_status = refund.status,
                !.status = "refunded"]

\* The index of the first record holding payment_id, 0 if none.
RefundTarget(db, payment_id) ==
    IF \E k \in DOMAIN db : db[k].razorpay_payment_id = payment_id
    THEN CHOOSE k \in DOMAIN db :
             /\ db[k].razorpay_payment_id = payment_id
             /\ \A h \in 1..(k - 1) : db[h].razorpay_payment_id # payment_id
    ELSE 0

\* The processor is called first: it raises (400, nothing stored) or replies
\* with a refund, which is then written to the first record holding payment_id.
create_refund(payment_id, amount) ==
    LET sent == refund_request_amount(amount)
        k    == RefundTarget(payments_db, payment_id)
    IN  \/ /\ response' = [Response("refund", HTTP_400_BAD_REQUEST) EXCEPT
                               !.gateway = "payment.refund", !.sent = sent]
           /\ UNCHANGED <<payments_db, tasks, refunded>>
        \/ \E refund \in GatewayRefunds(sent) :
               /\ payments_db' = IF k = 0 THEN payments_db
                                 ELSE [payments_db EXCEPT ![k] = refund_update(@, refund)]
               /\ refunded' = IF k = 0 THEN refunded
                              ELSE [refunded EXCEPT ![k] = AddRefund(@, refund.amount)]
               /\ response' = [Response("refund", HTTP_200_OK) EXCEPT
                                   !.gateway = "payment.refund", !.sent = sent]
               /\ UNCHANGED tasks

(* ------------------------------ behaviour ----------------------------- *)

CreateOrder == \E amount \in OrderAmounts, customer_name \in CustomerNames :
                   create_order(amount, customer_name)

VerifyPayment ==
    \E order_id \in OrderIds, payment_id \in PaymentIds :
        \E signature \in PaymentSignatures(order_id, payment_id) :
            verify_payment(order_id, payment_id, signature)

Webhook == \E body \in Bodies : \E headers \in SignatureHeaders(body) :
               razorpay_webhook(headers, body)

CreateRefund == \E payment_id \in PaymentIds, amount \in RefundAmounts :
                    create_refund(payment_id, amount)

RunTask == \E t \in 1..MaxTasks : TaskStart(t) \/ TaskScan(t) \/ TaskWrite(t)

Next == CreateOrder \/ VerifyPayment \/ Webhook \/ CreateRefund \/ RunTask

Spec == Init /\ [][Next]_vars

(* ------------------------------- claims ------------------------------- *)

TerminalStatuses == {"failed", "refunded"}

ValidPaymentSignature(order_id, payment_id) ==
    hmac_sha256(razorpay_key_secret, PaymentMessage(order_id, payment_id))

\* Some record that was in the ledger before the step differs after it.
RecordChanged == \E k \in DOMAIN payments_db : payments_db'[k] # payments_db[k]

\* C1: a record whose status is failed or refunded never holds a non-terminal
\* status afterwards (so a payment.captured processed after a payment.failed
\* leaves the record failed).
C1_TerminalStatusIsFinal ==
    [][\A k \in DOMAIN payments_db :
          payments_db[k].status \in TerminalStatuses
              => payments_db'[k].status \in TerminalStatuses]_vars

\* C2: a verify-payment request whose signature does not verify is answered
\* with a rejection and leaves the ledger as it was.
C2_InvalidSignatureRejected ==
    [][( /\ response'.op = "verify_payment"
         /\ \E order_id \in OrderIds, payment_id \in PaymentIds :
                \E signature \in PaymentSignatures(order_id, payment_id) :
                    /\ signature # ValidPaymentSignature(order_id, payment_id)
                    /\ verify_payment(order_id, payment_id, signature) )
       => ( /\ response'.code = HTTP_400_BAD_REQUEST
            /\ payments_db' = payments_db )]_vars

\* C2 witness: a verify-payment request was rejected for its signature (no
\* processor call was made) while the ledger held a paid order.
C2_Witness ==
    /\ response = Response("verify_payment", HTTP_400_BAD_REQUEST)
    /\ \E k \in DOMAIN payments_db : payments_db[k].status = "paid"

\* C3: a webhook request whose signature header is missing or does not verify
\* under the webhook secret is answered with a rejection; its body is not
\* parsed, no background task is scheduled and the ledger is as it was.
C3_UnverifiedWebhookRejected ==
    [][( /\ response'.op = "webhook"
         /\ \E body \in Bodies : \E headers \in SignatureHeaders(body) :
                /\ \/ headers = <<>>
                   \/ headers[1] # hmac_sha256(webhook_secret, body)
                /\ razorpay_webhook(headers, body) )
       => ( /\ response'.code = HTTP_400_BAD_REQUEST
            /\ ~response'.parsed
            /\ ~response'.scheduled
            /\ tasks' = tasks
            /\ payments_db' = payments_db )]_vars

\* C3 witness: a webhook was rejected before its body was parsed while the
\* ledger held an order.
C3_Witness ==
    /\ response = Response("webhook", HTTP_400_BAD_REQUEST)
    /\ payments_db # <<>>

\* C4: after a verify-payment request with a valid signature for an order in
\* the ledger, the order's recorded status is the status the processor's
\* fetch of the payment returned.
C4_StatusIsFetchedStatus ==
    [][(response'.op = "verify_payment" /\ response'.code = HTTP_200_OK) =>
          \A order_id \in OrderIds, payment_id \in PaymentIds :
              ( /\ order_id \in DOMAIN payments_db
                /\ verify_payment(order_id, payment_id,
                                  ValidPaymentSignature(order_id, payment_id)) )
              => payments_db'[order_id].status = response'.fetched]_vars

\* C5: for every payment in the ledger the refund amounts applied to it, by
\* refund requests and by refund.created webhooks, sum to at most its amount.
C5_RefundsWithinAmount ==
    \A k \in DOMAIN payments_db : refunded[k] <= payments_db[k].amount

\* C6: a refund request whose amount exceeds what is left to refund of the
\* payment it names is rejected with no refund call to the processor and no
\* change of the ledger.
C6_ExcessRefundRejectedLocally ==
    [][response'.op = "refund" =>
          \A payment_id \in PaymentIds, amount \in RefundAmounts \ {NoAmount} :
              LET k == RefundTarget(payments_db, payment_id)
              IN  ( /\ k # 0
                    /\ amount > payments_db[k].amount - refunded[k]
                    /\ create_refund(payment_id, amount) )
                  => ( /\ response'.code = HTTP_400_BAD_REQUEST
                       /\ response'.gateway = None
                       /\ payments_db' = payments_db )]_vars

\* C7: applying the same verified signal a second time changes nothing: in
\* every ledger state, processing a webhook event again, or repeating a
\* verify-payment request, gives the ledger the first application gave.
C7_SecondApplicationIsNoOp ==
    /\ \A body \in Bodies :
          body.wellformed =>
              LET once == process_webhook_event(payments_db, body.event, body)
              IN  process_webhook_event(once, body.event, body) = once
    /\ \A order_id \in OrderIds, payment_id \in PaymentIds :
          LET signature == ValidPaymentSignature(order_id, payment_id)
              once == verified_ledger(payments_db, order_id, payment_id, signature)
          IN  verified_ledger(once, order_id, payment_id, signature) = once

\* C7 witness: a refund.created event is waiting to be processed on a ledger
\* that already shows it applied to the record it matches (a redelivery).
C7_Witness ==
    \E t \in DOMAIN tasks :
        LET k == FirstMatch(payments_db, tasks[t].event, tasks[t].payload, 1)
        IN  /\ tasks[t].pc = "start"
            /\ tasks[t].event = "refund.created"
            /\ k # 0
            /\ payments_db[k].refund_status = "created"
            /\ payments_db[k].refund_amount = tasks[t].payload.amount

LegalTransitions ==
    { <<"created", "attempted">>, <<"attempted", "paid">>, <<"created", "failed">>,
      <<"attempted", "failed">>, <<"paid", "refunded">> }

\* C8: every change of a record's status is one of created -> attempted,
\* attempted -> paid, created -> failed, attempted -> failed, paid -> refunded.
C8_OnlyLegalTransitions ==
    [][\A k \in DOMAIN payments_db :
          payments_db'[k].status # payments_db[k].status
              => <<payments_db[k].status, payments_db'[k].status>> \in LegalTransitions]_vars

\* C9: every change to an existing record is made by a verify-payment request
\* whose signature verified or by the processing of a verified webhook; the
\* refund endpoint, which carries no signature, changes no existing record.
C9_ChangesAreVerified ==
    [][RecordChanged =>
          \/ \E order_id \in OrderIds, payment_id \in PaymentIds :
                 verify_payment(order_id, payment_id,
                                ValidPaymentSignature(order_id, payment_id))
          \/ \E t \in DOMAIN tasks : TaskWrite(t)]_vars

ValidWebhookHeaders(body) == <<hmac_sha256(webhook_secret, body)>>

TaskStep(t) == TaskStart(t) \/ TaskScan(t) \/ TaskWrite(t)

\* C11: a verified payment.captured or payment.failed webhook whose order id
\* is of no order in the ledger is answered with success, and its processing
\* matches no record: it changes no record, creates none, and ends without
\* a write.
C11_UnknownOrderEventIsNoOp ==
    [][ /\ ( /\ response'.op = "webhook"
             /\ \E body \in CapturedBodies \cup FailedBodies :
                    /\ body.order_id \notin DOMAIN payments_db
                    /\ razorpay_webhook(ValidWebhookHeaders(body), body) )
           => ( /\ response'.code = HTTP_200_OK
                /\ payments_db' = payments_db )
        /\ \A t \in DOMAIN tasks :
               ( /\ tasks[t].event \in {"payment.captured", "payment.failed"}
                 /\ tasks[t].payload.order_id \notin DOMAIN payments_db
                 /\ TaskStep(t) )
               => ( /\ payments_db' = payments_db
                    /\ \/ tasks' = RemoveAt(tasks, t)
                       \/ /\ Len(tasks') = Len(tasks)
                          /\ tasks'[t].pc # "write" ) ]_vars

\* The scan of a payment event for an order the ledger does not hold has
\* passed every record of a ledger that holds one.
C11_Witness ==
    \E t \in DOMAIN tasks :
        /\ tasks[t].event \in {"payment.captured", "payment.failed"}
        /\ tasks[t].payload.order_id \notin DOMAIN payments_db
        /\ tasks[t].pc = "scan"
        /\ tasks[t].n >= 1
        /\ tasks[t].i > tasks[t].n
        /\ response.op = "webhook"
        /\ response.code = HTTP_200_OK

\* C12: a verified webhook whose event is none of payment.captured,
\* payment.failed and refund.created is answered with success, and neither the
\* request nor its processing changes the ledger.
C12_OtherEventLeavesLedger ==
    [][ /\ ( /\ response'.op = "webhook"
             /\ \E body \in Bodies :
                    /\ body.wellformed
                    /\ body.event \notin {"payment.captured", "payment.failed",
                                          "refund.created"}
                    /\ razorpay_webhook(ValidWebhookHeaders(body), body) )
           => ( /\ response'.code = HTTP_200_OK
                /\ payments_db' = payments_db )
        /\ \A t \in DOMAIN tasks :
               ( /\ tasks[t].event \notin {"payment.captured", "payment.failed",
                                           "refund.created"}
                 /\ TaskStep(t) )
               => ( /\ payments_db' = payments_db
                    /\ tasks' = RemoveAt(tasks, t) ) ]_vars

\* A task for such an event waits to run while the ledger holds the order the
\* event names.
C12_Witness ==
    \E t \in DOMAIN tasks :
        /\ tasks[t].event = "order.paid"
        /\ tasks[t].payload.order_id \in DOMAIN payments_db
        /\ response.code = HTTP_200_OK
        /\ response.scheduled

\* C13: a refund status that has left `created` is final: once a record's
\* refund status is processed or failed, no step changes it.
C13_RefundStatusIsFinal ==
    [][\A k \in DOMAIN payments_db :
          payments_db[k].refund_status \in {"processed", "failed"}
              => payments_db'[k].refund_status = payments_db[k].refund_status]_vars

\* The thread pool runs every scheduled task: a step of a pending task is not
\* put off forever.
FairSpec == Spec /\ \A t \in 1..MaxTasks : WF_vars(TaskStep(t))

C15_PaymentsBelongToOrders ==
    [][ /\ \A k \in DOMAIN payments_db' :
               ( /\ payments_db'[k].razorpay_payment_id # None
                 /\ \/ k \notin DOMAIN payments_db
                    \/ payments_db[k].razorpay_payment_id
                           # payments_db'[k].razorpay_payment_id )
               => ( /\ k \in DOMAIN payments_db
                    /\ payments_db[k].order_id = k
                    /\ payments_db'[k].order_id = k
                    /\ \/ verify_payment(k, payments_db'[k].razorpay_payment_id,
                              ValidPaymentSignature(k, payments_db'[k].razorpay_payment_id))
                       \/ \E t \in DOMAIN tasks :
                              /\ tasks[t].event = "payment.captured"
                              /\ tasks[t].payload.order_id = k
                              /\ tasks[t].payload.payment_id
                                     = payments_db'[k].razorpay_payment_id
                              /\ TaskWrite(t) )
        /\ ( /\ response'.op = "verify_payment"
             /\ \E order_id \in OrderIds, payment_id \in PaymentIds :
                    /\ order_id \notin DOMAIN payments_db
                    /\ verify_payment(order_id, payment_id,
                                      ValidPaymentSignature(order_id, payment_id)) )
           => payments_db' = payments_db
        /\ \A t \in DOMAIN tasks :
               ( /\ tasks[t].event = "payment.captured"
                 /\ tasks[t].payload.order_id \notin DOMAIN payments_db
                 /\ TaskStep(t) )
               => payments_db' = payments_db ]_vars

\* A verify-payment request with a valid signature for an order the ledger
\* does not hold was accepted, and the ledger's records carry no payment.
C15_Witness ==
    /\ response.op = "verify_payment"
    /\ response.code = HTTP_200_OK
    /\ payments_db # <<>>
    /\ \A k \in DOMAIN payments_db : payments_db[k].razorpay_payment_id = None

\* C16: no step removes a record or changes its order id, amount, currency or
\* customer metadata: a record present before a step is present after it with
\* these fields as they were.
C16_OrderFieldsAreFixed ==
    [][\A k \in DOMAIN payments_db :
          /\ k \in DOMAIN payments_db'
          /\ payments_db'[k].order_id = payments_db[k].order_id
          /\ payments_db'[k].amount = payments_db[k].amount
          /\ payments_db'[k].currency = payments_db[k].currency
          /\ payments_db'[k].customer_name = payments_db[k].customer_name
          /\ payments_db'[k].customer_email = payments_db[k].customer_email
          /\ payments_db'[k].customer_phone = payments_db[k].customer_phone
          /\ payments_db'[k].description = payments_db[k].description]_vars

\* A record went through a payment and a refund while a second order was
\* created after it, and holds what create-order wrote.
C16_Witness ==
    /\ Len(payments_db) = 2
    /\ payments_db[1].status = "refunded"
    /\ payments_db[1].refund_status = "created"
    /\ payments_db[1].method # None
    /\ \A k \in DOMAIN payments_db :
           \E amount \in OrderAmounts, customer_name \in CustomerNames :
               /\ payments_db[k].order_id = k
               /\ payments_db[k].amount = amount
               /\ payments_db[k].customer_name = customer_name

\* C17: the minor-unit amount create_order and create_refund send to the
\* processor is the requested amount times 100 exactly (amounts are held in
\* hundredths here, so the amount sent is the amount itself).
C17_MinorUnitsAreExact ==
    [][ /\ \A amount \in OrderAmounts, customer_name \in CustomerNames :
               ( /\ response'.op = "create_order"
                 /\ create_order(amount, customer_name) )
               => response'.sent = amount
        /\ \A payment_id \in PaymentIds, amount \in RefundAmounts \ {NoAmount, 0} :
               ( /\ response'.op = "refund"
                 /\ create_refund(payment_id, amount) )
               => response'.sent = amount ]_vars

\* C18: no verified payment.captured event for an order in the ledger is lost:
\* a task whose scan began with the event's order in the ledger does not end
\* in the scan, before it has written the order's record.
C18_CapturedEventIsApplied ==
    [][\A t \in DOMAIN tasks :
          ( /\ tasks[t].event = "payment.captured"
            /\ tasks[t].pc = "scan"
            /\ tasks[t].payload.order_id \in 1..tasks[t].n
            /\ TaskScan(t) )
          => tasks' # RemoveAt(tasks, t)]_vars

\* C19: the processing of a verified refund.created event changes only a
\* record whose recorded payment id is the payment id the event carries, and
\* only its refund id, amount and status; an event that carries no payment id,
\* or one no record holds, changes no record.
C19_RefundEventTouchesItsPayment ==
    [][\A t \in DOMAIN tasks :
          ( /\ tasks[t].event = "refund.created"
            /\ TaskStep(t) )
          => \A k \in DOMAIN payments_db :
                 payments_db'[k] # payments_db[k]
                     => /\ tasks[t].payload.payment_id # None
                        /\ payments_db[k].razorpay_payment_id
                               = tasks[t].payload.payment_id
                        /\ payments_db'[k] =
                               [payments_db[k] EXCEPT
                                    !.refund_id = tasks[t].payload.refund_id,
                                    !.refund_amount = tasks[t].payload.amount,
                                    !.refund_status = "created"]]_vars

\* C20: a verify-payment request that ends in an error response, the one
\* whose signature is valid and whose payment fetch fails included, leaves the
\* ledger as it was before the request.
C20_FailedVerifyLeavesLedger ==
    [][( /\ response'.op = "verify_payment"
         /\ response'.code = HTTP_400_BAD_REQUEST
         /\ \E order_id \in OrderIds, payment_id \in PaymentIds :
                \E signature \in PaymentSignatures(order_id, payment_id) :
                    verify_payment(order_id, payment_id, signature) )
       => payments_db' = payments_db]_vars

\* C21: a record that holds a verification signature holds the signature of
\* its current order id and current payment id.
C21_StoredSignatureMatchesPayment ==
    \A k \in DOMAIN payments_db :
        payments_db[k].razorpay_signature # NoSignature
            => payments_db[k].razorpay_signature
                   = ValidPaymentSignature(payments_db[k].razorpay_order_id,
                                           payments_db[k].razorpay_payment_id)

\* C22: a refund request asks the processor for a full refund (no amount in
\* the call) only when the request itself gives no amount; a request with an
\* explicit amount, 0 included, sends an amount.
C22_FullRefundOnlyWhenOmitted ==
    [][\A payment_id \in PaymentIds, amount \in RefundAmounts :
          ( /\ response'.op = "refund"
            /\ create_refund(payment_id, amount) )
          => (response'.sent = NoAmount <=> amount = NoAmount)]_vars

====
